---- MODULE Spec2Model ----
(***************************************************************************)
(* ReaderTaskEither (an environment -> deferred -> Either effect) and      *)
(* Semigroup.fold, as state machines.                                      *)
(*                                                                         *)
(* Three levels of values are kept apart, as in the TypeScript:            *)
(*   - a ReaderTaskEither is a closure  r => TaskEither   (field op),      *)
(*   - a TaskEither is a closure        () => Promise     (field t),       *)
(*   - a Promise is a running computation                 (field p).       *)
(* Invoke applies the first to an environment, Start forces the second,    *)
(* and the actions Settle/Resume advance the third.  Every call of a       *)
(* user-supplied function or leaf is recorded in the variable log.         *)
(***************************************************************************)
EXTENDS Integers, Sequences, FiniteSets, TLC

VARIABLES progs, idx, pc, env, eff, rt, out, log, results,
          fS, fstart, fas, fi, facc, fpc

rteVars == <<progs, idx, pc, env, eff, rt, out, log, results>>
foldVars == <<fS, fstart, fas, fi, facc, fpc>>
vars == <<progs, idx, pc, env, eff, rt, out, log, results,
          fS, fstart, fas, fi, facc, fpc>>

\* ------------------------------------------------------------------ bounds
MaxVal == 1
MaxEnv == 1
MaxLen == 3

Val == 0..MaxVal
Env == 0..MaxEnv
NVal == MaxVal + 1
NEnv == MaxEnv + 1

\* ------------------------------------------------- Either, Option, events
Left(e) == [tag |-> "Left", v |-> e]
Right(a) == [tag |-> "Right", v |-> a]
isLeft(ma) == ma.tag = "Left"
Either == {Left(e) : e \in Val} \cup {Right(a) : a \in Val}

None == [tag |-> "None", v |-> 0]
Some(a) == [tag |-> "Some", v |-> a]

NoArg == 0 - 1
Ev(e, id, arg) == [e |-> e, id |-> id, arg |-> arg]
Ret(v) == [v |-> v, ev |-> <<>>]

\* Either.map / Either.ap: the Result-applicative rule
E_map(ma, f) == IF isLeft(ma) THEN ma ELSE Right(f)
E_ap(mab, ma, fa) == IF isLeft(mab) THEN mab ELSE IF isLeft(ma) THEN ma ELSE Right(fa)

\* ------------------------------------------------ user-supplied functions
\* Pure functions, named: a user lambda, a composition  a => g(f(a)), or a
\* function that arrived as a value in the function branch of ap.
UserFn(id, x) ==
    CASE id = "inc"  -> (x + 1) % NVal
      [] id = "neg"  -> MaxVal - (x % NVal)
      [] id = "einc" -> (x + 1) % NEnv
      [] id = "eneg" -> MaxEnv - (x % NEnv)
      [] OTHER       -> x

FnUser(id) == [kind |-> "user", id |-> id, g |-> "", fv |-> 0]
FnComp(g, f) == [kind |-> "comp", id |-> f, g |-> g, fv |-> 0]
FnVal(fv) == [kind |-> "val", id |-> "", g |-> "", fv |-> fv]

\* the function denoted by the value fv in the function branch of ap
ValFn(fv, x) == (fv + x + 1) % NVal

ApplyFn(fn, x) ==
    CASE fn.kind = "user" -> UserFn(fn.id, x)
      [] fn.kind = "comp" -> UserFn(fn.g, UserFn(fn.id, x))
      [] fn.kind = "val"  -> ValFn(fn.fv, x)

FnEv(fn, x) ==
    CASE fn.kind = "user" -> <<Ev("call", fn.id, x)>>
      [] fn.kind = "comp" -> <<Ev("call", fn.id, x), Ev("call", fn.g, UserFn(fn.id, x))>>
      [] fn.kind = "val"  -> <<>>

UserPred(id, a) == IF id = "isPos" THEN a > 0 ELSE a = 0
UserNone(id) == IF id = "n1" THEN MaxVal ELSE 0
IOVal(id) == IF id = "I1" THEN MaxVal ELSE 0

\* Recipes: what a caller of the library writes (field c).
Leaf(id) == [c |-> "leaf", id |-> id]

\* continuations  a => ReaderTaskEither  and handlers  e => ReaderTaskEither
UserK(id, x) ==
    CASE id = "kRight"   -> [c |-> "right", a |-> x]
      [] id = "kPos"     -> IF x > 0 THEN [c |-> "right", a |-> (x * 2) % NVal]
                                     ELSE [c |-> "left", e |-> MaxVal]
      [] id = "kLeaf2"   -> Leaf("L2")
      [] id = "kLeaf3"   -> Leaf("L3")
      [] id = "hRecover" -> [c |-> "right", a |-> (x + 1) % NVal]
      [] id = "hFail"    -> [c |-> "left", e |-> (x + 1) % NVal]
      [] id = "hLeaf2"   -> Leaf("L2")

\* thunks  () => ReaderTaskEither
UserThunk(id) ==
    CASE id = "tLeaf2" -> Leaf("L2")
      [] id = "tRight" -> [c |-> "right", a |-> MaxVal]
      [] id = "tLeft"  -> [c |-> "left", e |-> MaxVal]

KUser(id) == [kind |-> "user", id |-> id]
KKleisli(f, g) == [kind |-> "kleisli", id |-> f, g |-> g]
KMapInto(ma) == [kind |-> "mapInto", ma |-> ma]

\* ------------------------------------------------- TaskEither (closures)
\* A TaskEither is  () => Promise<Either>;  field t names which closure.
TE_of(res) == [t |-> "of", res |-> res]
TE_left(e) == TE_of(Left(e))
TE_right(a) == TE_of(Right(a))
TE_rightTask(ma) == [t |-> "task", id |-> ma, side |-> "Right"]
TE_leftTask(me) == [t |-> "task", id |-> me, side |-> "Left"]
TE_rightIO(ma) == [t |-> "io", id |-> ma, side |-> "Right"]
TE_leftIO(me) == [t |-> "io", id |-> me, side |-> "Left"]
TE_fromPredicate(predicate, onFalse, a) ==
    IF UserPred(predicate, a)
    THEN [v |-> TE_right(a), ev |-> <<Ev("call", predicate, a)>>]
    ELSE [v |-> TE_left(ApplyFn(onFalse, a)),
          ev |-> <<Ev("call", predicate, a)>> \o FnEv(onFalse, a)]
TE_map(ma, f) == [t |-> "map", ma |-> ma, k |-> f]
TE_ap(mab, ma) == [t |-> "ap", mab |-> mab, ma |-> ma]
TE_chain(ma, f) == [t |-> "chain", ma |-> ma, k |-> f]
TE_alt(fx, fy) == [t |-> "alt", ma |-> fx, k |-> fy]
TE_orElse(f, ma) == [t |-> "orElse", ma |-> ma, k |-> f]
TE_fold(f, ma) == [t |-> "fold", ma |-> ma, k |-> f]
M_of(a) == TE_right(a)

\* --------------------------------------- ReaderT over TaskEither (closures)
\* A ReaderTaskEither is  r => TaskEither;  field op names which closure.
T_of(a) == [op |-> "of", a |-> a]
T_map(ma, f) == [op |-> "map", ma |-> ma, f |-> f]
T_ap(mab, ma) == [op |-> "ap", mab |-> mab, ma |-> ma]
T_chain(ma, f) == [op |-> "chain", ma |-> ma, f |-> f]
T_ask == [op |-> "ask"]
T_asks(f) == [op |-> "asks", f |-> f]
T_local(ma, f) == [op |-> "local", ma |-> ma, f |-> f]
T_fromReader(ma) == [op |-> "fromReader", f |-> ma]
T_fromM(ma) == [op |-> "fromM", te |-> ma]

\* ------------------------------------------- ReaderTaskEither (the source)
fromTaskEither(ma) == T_fromM(ma)

left(e) == fromTaskEither(TE_left(e))

\* a variant that lifts into the failure position
right_asLeft(a) == left(a)

right(a) == T_of(a)

rightTask(ma) == fromTaskEither(TE_rightTask(ma))

leftTask(me) == fromTaskEither(TE_leftTask(me))

rightReader(ma) == T_fromReader(ma)

leftReader(me) == [op |-> "leftReader", f |-> me]

rightIO(ma) == fromTaskEither(TE_rightIO(ma))

leftIO(me) == fromTaskEither(TE_leftIO(me))

\* a variant that evaluates the default before looking at the option
fromOption_strict(onNone, ma) ==
    [v |-> IF ma.tag = "None" THEN left(UserNone(onNone)) ELSE right(ma.v),
     ev |-> <<Ev("call", onNone, NoArg)>>]

\* ma => (ma._tag === 'None' ? left(onNone()) : right(ma.value))
fromOption(onNone, ma) ==
    IF ma.tag = "None"
    THEN [v |-> left(UserNone(onNone)), ev |-> <<Ev("call", onNone, NoArg)>>]
    ELSE Ret(right(ma.v))

\* const f = TE.fromPredicate(predicate, onFalse); a => fromTaskEither(f(a))
fromPredicate(predicate, onFalse, a) ==
    LET f == TE_fromPredicate(predicate, onFalse, a)
    IN  [v |-> fromTaskEither(f.v), ev |-> f.ev]

foldRTE(onLeft, onRight, ma) ==
    [op |-> "fold", ma |-> ma, onLeft |-> onLeft, onRight |-> onRight]

\* a variant that continues on Success instead of recovering on Failure
orElse_asChain(f, ma) == T_chain(ma, f)

orElse(f, ma) == [op |-> "orElse", ma |-> ma, f |-> f]

ask == T_ask

asks(f) == T_asks(f)

\* a variant that drops the environment mapping
local_ignoring(f, ma) == ma

local(f, ma) == T_local(ma, f)

readerTaskEither_map(fa, f) == T_map(fa, f)

readerTaskEither_of(a) == right(a)

\* variants: the branches swapped; the value branch chained after the function branch
readerTaskEither_ap_swapped(mab, ma) == T_ap(ma, mab)

readerTaskEither_ap_sequential(mab, ma) == T_chain(mab, KMapInto(ma))

readerTaskEither_ap(mab, ma) == T_ap(mab, ma)

\* a variant that continues on Failure instead of on Success
readerTaskEither_chain_onFailure(fa, f) == [op |-> "orElse", ma |-> fa, f |-> f]

readerTaskEither_chain(fa, f) == T_chain(fa, f)

readerTaskEither_alt(fx, fy) == [op |-> "alt", ma |-> fx, fy |-> fy]

\* a variant that keeps the parallel ap
readerTaskEitherSeq_ap_parallel(mab, ma) == T_ap(mab, ma)

\* ap: (mab, ma) => T.chain(mab, f => T.map(ma, f))
readerTaskEitherSeq_ap(mab, ma) == T_chain(mab, KMapInto(ma))

\* ------------------------------------------------------ applying closures
RECURSIVE Construct(_), Invoke(_, _), ApplyK(_, _)

\* closures handed to TaskEither: what they capture
KReader(f, r) == [kind |-> "reader", f |-> f, r |-> r]
KAlt(fy, r) == [kind |-> "alt", fy |-> fy, r |-> r]
KOrElse(f, r) == [kind |-> "orElse", f |-> f, r |-> r]
KFold(onLeft, onRight, r) == [kind |-> "fold", onLeft |-> onLeft, onRight |-> onRight, r |-> r]
KConst(te) == [kind |-> "const", te |-> te]

\* calling a user thunk  fy()
CallThunk(id) ==
    LET c == Construct(UserThunk(id))
    IN  [v |-> c.v, ev |-> <<Ev("call", id, NoArg)>> \o c.ev]

\* ReaderT: the bodies  r => ...  of its closures
T_of_r(c, r) == Ret(M_of(c.a))

T_map_r(c, r) ==
    LET m == Invoke(c.ma, r)
    IN  [v |-> TE_map(m.v, c.f), ev |-> m.ev]

T_ap_r(c, r) ==
    LET x == Invoke(c.mab, r)
        y == Invoke(c.ma, r)
    IN  [v |-> TE_ap(x.v, y.v), ev |-> x.ev \o y.ev]

T_chain_r(c, r) ==
    LET m == Invoke(c.ma, r)
    IN  [v |-> TE_chain(m.v, KReader(c.f, r)), ev |-> m.ev]

\* a => f(a)(r)
T_chain_k(k, a) ==
    LET x == ApplyK(k.f, a)
        m == Invoke(x.v, k.r)
    IN  [v |-> m.v, ev |-> x.ev \o m.ev]

T_ask_r(c, r) == Ret(M_of(r))

T_asks_r(c, r) == [v |-> M_of(ApplyFn(c.f, r)), ev |-> FnEv(c.f, r)]

T_local_r(c, q) ==
    LET m == Invoke(c.ma, ApplyFn(c.f, q))
    IN  [v |-> m.v, ev |-> FnEv(c.f, q) \o m.ev]

T_fromReader_r(c, r) == [v |-> M_of(ApplyFn(c.f, r)), ev |-> FnEv(c.f, r)]

T_fromM_r(c, r) == Ret(c.te)

\* ReaderTaskEither: the bodies  r => ...  of the closures the source writes
\* r => TE.left(me(r))
leftReader_r(c, r) == [v |-> TE_left(ApplyFn(c.f, r)), ev |-> FnEv(c.f, r)]

\* r => pipe(ma(r), TE.fold(e => onLeft(e)(r), a => onRight(a)(r)))
foldRTE_r(c, r) ==
    LET m == Invoke(c.ma, r)
    IN  [v |-> TE_fold(KFold(c.onLeft, c.onRight, r), m.v), ev |-> m.ev]

foldRTE_k(k, res) ==
    LET h == IF isLeft(res) THEN k.onLeft ELSE k.onRight
    IN  [v |-> TE_of([tag |-> "Value", v |-> ApplyFn(h, res.v)]), ev |-> FnEv(h, res.v)]

\* r => TE.orElse(e => f(e)(r))(ma(r))
orElse_r(c, r) ==
    LET m == Invoke(c.ma, r)
    IN  [v |-> TE_orElse(KOrElse(c.f, r), m.v), ev |-> m.ev]

\* e => f(e)(r)
orElse_k(k, e) ==
    LET x == ApplyK(k.f, e)
        m == Invoke(x.v, k.r)
    IN  [v |-> m.v, ev |-> x.ev \o m.ev]

\* () => fy()(r)
readerTaskEither_alt_k(k) ==
    LET x == CallThunk(k.fy)
        m == Invoke(x.v, k.r)
    IN  [v |-> m.v, ev |-> x.ev \o m.ev]

\* a variant that calls the thunk when the Effect is invoked
readerTaskEither_alt_r_eager(c, r) ==
    LET m == Invoke(c.ma, r)
        y == readerTaskEither_alt_k(KAlt(c.fy, r))
    IN  [v |-> TE_alt(m.v, KConst(y.v)), ev |-> m.ev \o y.ev]

\* r => TE.taskEither.alt(fx(r), () => fy()(r))
readerTaskEither_alt_r(c, r) ==
    LET m == Invoke(c.ma, r)
    IN  [v |-> TE_alt(m.v, KAlt(c.fy, r)), ev |-> m.ev]

\* a user-supplied ReaderTaskEither: invoking it is recorded
Leaf_r(c, r) == [v |-> [t |-> "leaf", id |-> c.id, r |-> r], ev |-> <<Ev("invoke", c.id, r)>>]

\* ma(r)
Invoke(c, r) ==
    CASE c.op = "leaf"       -> Leaf_r(c, r)
      [] c.op = "of"         -> T_of_r(c, r)
      [] c.op = "map"        -> T_map_r(c, r)
      [] c.op = "ap"         -> T_ap_r(c, r)
      [] c.op = "chain"      -> T_chain_r(c, r)
      [] c.op = "ask"        -> T_ask_r(c, r)
      [] c.op = "asks"       -> T_asks_r(c, r)
      [] c.op = "local"      -> T_local_r(c, r)
      [] c.op = "fromReader" -> T_fromReader_r(c, r)
      [] c.op = "fromM"      -> T_fromM_r(c, r)
      [] c.op = "leftReader" -> leftReader_r(c, r)
      [] c.op = "fold"       -> foldRTE_r(c, r)
      [] c.op = "orElse"     -> orElse_r(c, r)
      [] c.op = "alt"        -> readerTaskEither_alt_r(c, r)

\* f(a) for a continuation f: a user function, the user's  a => chain(f(a), g),
\* or readerTaskEitherSeq's  f => T.map(ma, f)
ApplyK(f, a) ==
    CASE f.kind = "user" ->
           LET c == Construct(UserK(f.id, a))
           IN  [v |-> c.v, ev |-> <<Ev("call", f.id, a)>> \o c.ev]
      [] f.kind = "kleisli" ->
           LET c == Construct(UserK(f.id, a))
           IN  [v |-> readerTaskEither_chain(c.v, KUser(f.g)),
                ev |-> <<Ev("call", f.id, a)>> \o c.ev]
      [] f.kind = "mapInto" -> Ret(T_map(f.ma, FnVal(a)))

\* the caller's expression: each combinator applied to its arguments
Construct(p) ==
    CASE p.c = "leaf"      -> Ret([op |-> "leaf", id |-> p.id])
      [] p.c = "right"     -> Ret(right(p.a))
      [] p.c = "left"      -> Ret(left(p.e))
      [] p.c = "rightTask" -> Ret(rightTask(p.id))
      [] p.c = "leftTask"  -> Ret(leftTask(p.id))
      [] p.c = "rightIO"   -> Ret(rightIO(p.id))
      [] p.c = "leftIO"    -> Ret(leftIO(p.id))
      [] p.c = "rightReader" -> Ret(rightReader(p.f))
      [] p.c = "leftReader"  -> Ret(leftReader(p.f))
      [] p.c = "fromOption"  -> fromOption(p.onNone, p.ma)
      [] p.c = "fromPredicate" -> fromPredicate(p.predicate, p.onFalse, p.a)
      [] p.c = "ask"       -> Ret(ask)
      [] p.c = "asks"      -> Ret(asks(p.f))
      [] p.c = "local"     -> LET m == Construct(p.ma)
                              IN  [v |-> local(p.f, m.v), ev |-> m.ev]
      [] p.c = "map"       -> LET m == Construct(p.ma)
                              IN  [v |-> readerTaskEither_map(m.v, p.f), ev |-> m.ev]
      [] p.c = "chain"     -> LET m == Construct(p.ma)
                              IN  [v |-> readerTaskEither_chain(m.v, p.f), ev |-> m.ev]
      [] p.c = "orElse"    -> LET m == Construct(p.ma)
                              IN  [v |-> orElse(p.f, m.v), ev |-> m.ev]
      [] p.c = "alt"       -> LET m == Construct(p.ma)
                              IN  [v |-> readerTaskEither_alt(m.v, p.fy), ev |-> m.ev]
      [] p.c = "fold"      -> LET m == Construct(p.ma)
                              IN  [v |-> foldRTE(p.onLeft, p.onRight, m.v), ev |-> m.ev]
      [] p.c = "ap"        -> LET x == Construct(p.mab)
                                  y == Construct(p.ma)
                              IN  [v |-> readerTaskEither_ap(x.v, y.v), ev |-> x.ev \o y.ev]
      [] p.c = "apSeq"     -> LET x == Construct(p.mab)
                                  y == Construct(p.ma)
                              IN  [v |-> readerTaskEitherSeq_ap(x.v, y.v), ev |-> x.ev \o y.ev]

\* ------------------------------------------------------------- promises
Done(res) == [p |-> "done", res |-> res]
Wait(id, side) == [p |-> "wait", id |-> id, side |-> side]
Then(inner, t, k) == [p |-> "then", inner |-> inner, t |-> t, k |-> k]
All(l, r) == [p |-> "all", l |-> l, r |-> r]
Side(side, res) ==
    CASE side = "Left"  -> Left(res.v)
      [] side = "Right" -> Right(res.v)
      [] OTHER          -> res

RECURSIVE Start(_), SettleSteps(_), ResumeSteps(_)

\* ma(): Task.map/chain are  () => ma().then(..),  Task.ap is
\* () => Promise.all([mab(), ma()]).then(..)
Start(te) ==
    CASE te.t = "of"   -> Ret(Done(te.res))
      [] te.t = "leaf" -> [v |-> Wait(te.id, "Both"), ev |-> <<Ev("start", te.id, te.r)>>]
      [] te.t = "task" -> [v |-> Wait(te.id, te.side), ev |-> <<Ev("start", te.id, NoArg)>>]
      [] te.t = "io"   -> [v |-> Done(Side(te.side, Right(IOVal(te.id)))),
                           ev |-> <<Ev("io", te.id, NoArg)>>]
      [] te.t = "ap"   -> LET x == Start(te.mab)
                              y == Start(te.ma)
                          IN  [v |-> All(x.v, y.v), ev |-> x.ev \o y.ev]
      [] OTHER         -> LET x == Start(te.ma)
                          IN  [v |-> Then(x.v, te.t, te.k), ev |-> x.ev]

\* the closure a TaskEither combinator was given, applied
RunK(k, x) ==
    CASE k.kind = "reader" -> T_chain_k(k, x)
      [] k.kind = "alt"    -> readerTaskEither_alt_k(k)
      [] k.kind = "orElse" -> orElse_k(k, x)
      [] k.kind = "fold"   -> foldRTE_k(k, x)
      [] k.kind = "const"  -> Ret(k.te)

\* EitherT over Task: what the callback of  ma().then(..)  returns
EitherT_then(t, k, res) ==
    CASE t = "map"    -> IF isLeft(res) THEN Ret(TE_of(res))
                         ELSE [v |-> TE_of(Right(ApplyFn(k, res.v))), ev |-> FnEv(k, res.v)]
      [] t = "chain"  -> IF isLeft(res) THEN Ret(TE_of(res)) ELSE RunK(k, res.v)
      [] t = "alt"    -> IF isLeft(res) THEN RunK(k, NoArg) ELSE Ret(TE_of(res))
      [] t = "orElse" -> IF isLeft(res) THEN RunK(k, res.v) ELSE Ret(TE_of(res))
      [] t = "fold"   -> RunK(k, res)

\* both branches settled: Either's ap
EitherT_all(mab, ma) == E_ap(mab, ma, ValFn(mab.v, ma.v))

\* the outcomes a leaf may settle to: any, but the same each time it is run
Outcomes(id, side) ==
    IF out[id].set THEN {out[id].res}
    ELSE IF side = "Both" THEN Either ELSE {Right(a) : a \in Val}

\* one pending leaf settles
SettleSteps(p) ==
    CASE p.p = "wait" ->
           {[v |-> Done(Side(p.side, res)), ev |-> <<Ev("settle", p.id, NoArg)>>,
             id |-> p.id, res |-> res] : res \in Outcomes(p.id, p.side)}
      [] p.p = "then" ->
           {[v |-> Then(s.v, p.t, p.k), ev |-> s.ev, id |-> s.id, res |-> s.res] :
              s \in SettleSteps(p.inner)}
      [] p.p = "all" ->
           {[v |-> All(s.v, p.r), ev |-> s.ev, id |-> s.id, res |-> s.res] :
              s \in SettleSteps(p.l)}
           \cup
           {[v |-> All(p.l, s.v), ev |-> s.ev, id |-> s.id, res |-> s.res] :
              s \in SettleSteps(p.r)}
      [] OTHER -> {}

\* one callback whose promise has settled runs
ResumeSteps(p) ==
    CASE p.p = "then" ->
           IF p.inner.p = "done"
           THEN LET cb == EitherT_then(p.t, p.k, p.inner.res)
                    s == Start(cb.v)
                IN  {[v |-> s.v, ev |-> cb.ev \o s.ev]}
           ELSE {[v |-> Then(s.v, p.t, p.k), ev |-> s.ev] : s \in ResumeSteps(p.inner)}
      [] p.p = "all" ->
           IF p.l.p = "done" /\ p.r.p = "done"
           THEN {[v |-> Done(EitherT_all(p.l.res, p.r.res)), ev |-> <<>>]}
           ELSE {[v |-> All(s.v, p.r), ev |-> s.ev] : s \in ResumeSteps(p.l)}
                \cup
                {[v |-> All(p.l, s.v), ev |-> s.ev] : s \in ResumeSteps(p.r)}
      [] OTHER -> {}

\* run(ma, r) == ma(r)()
run(ma, r) ==
    LET m == Invoke(ma, r)
        s == Start(m.v)
    IN  [v |-> s.v, ev |-> m.ev \o s.ev]

\* ------------------------------------------------------------- programs
Pure == {[c |-> "right", a |-> a] : a \in Val} \cup {[c |-> "left", e |-> e] : e \in Val}
First == {Leaf("L1")} \cup Pure
Second == {Leaf("L2")} \cup Pure
Continuations == {KUser("kRight"), KUser("kPos"), KUser("kLeaf2")}
Handlers == {KUser("hRecover"), KUser("hFail"), KUser("hLeaf2")}
Thunks == {"tLeaf2", "tRight", "tLeft"}
EnvFns == {FnUser("einc"), FnUser("eneg")}
ValFns == {FnUser("inc"), FnUser("neg")}
Options == {None} \cup {Some(a) : a \in Val}

P_chain(ma, f) == [c |-> "chain", ma |-> ma, f |-> f]
P_ap(mab, ma) == [c |-> "ap", mab |-> mab, ma |-> ma]
P_apSeq(mab, ma) == [c |-> "apSeq", mab |-> mab, ma |-> ma]
P_alt(fx, fy) == [c |-> "alt", ma |-> fx, fy |-> fy]
P_orElse(f, ma) == [c |-> "orElse", ma |-> ma, f |-> f]
P_local(f, ma) == [c |-> "local", ma |-> ma, f |-> f]
P_asks(f) == [c |-> "asks", f |-> f]
P_map(ma, f) == [c |-> "map", ma |-> ma, f |-> f]
P_fold(onLeft, onRight, ma) == [c |-> "fold", ma |-> ma, onLeft |-> onLeft, onRight |-> onRight]
P_fromOption(onNone, ma) == [c |-> "fromOption", onNone |-> onNone, ma |-> ma]
P_fromPredicate(predicate, onFalse, a) ==
    [c |-> "fromPredicate", predicate |-> predicate, onFalse |-> onFalse, a |-> a]

Constructors ==
    Pure
    \cup {[c |-> k, id |-> "T1"] : k \in {"rightTask", "leftTask"}}
    \cup {[c |-> k, id |-> "I1"] : k \in {"rightIO", "leftIO"}}
    \cup {[c |-> k, f |-> g] : k \in {"rightReader", "leftReader"}, g \in ValFns}
    \cup {[c |-> "ask"]}
    \cup {P_asks(g) : g \in ValFns}
    \cup {P_fromOption("n1", ma) : ma \in Options}
    \cup {P_fromPredicate("isPos", FnUser("inc"), a) : a \in Val}

Single ==
    Constructors
    \cup {P_chain(ma, f) : ma \in First, f \in Continuations}
    \cup {P_ap(mab, ma) : mab \in First, ma \in Second}
    \cup {P_apSeq(mab, ma) : mab \in First, ma \in Second}
    \cup {P_alt(fx, fy) : fx \in First, fy \in Thunks}
    \cup {P_orElse(f, ma) : f \in Handlers, ma \in First}
    \cup {P_local(f, Leaf("L1")) : f \in EnvFns}
    \cup {P_map(ma, f) : ma \in First, f \in ValFns}
    \cup {P_fold(FnUser("inc"), FnUser("neg"), ma) : ma \in First}
    \cup {P_chain(P_fromOption("n1", ma), KUser("kLeaf2")) : ma \in Options}
    \cup {P_map(P_fromPredicate("isPos", FnUser("inc"), a), FnUser("neg")) : a \in Val}

\* two programs run one after the other under the same environment and leaves
LocalAsks == {<<P_local(f, P_asks(g)), P_asks(FnComp(g.id, f.id))>> : f \in EnvFns, g \in ValFns}
LeftIdentity == {<<P_chain([c |-> "right", a |-> a], f), UserK(f.id, a)>> :
                   a \in Val, f \in Continuations}
RightIdentity == {<<P_chain(fa, KUser("kRight")), fa>> : fa \in First}
Associativity ==
    {<<P_chain(P_chain(fa, KUser(f)), KUser(g)), P_chain(fa, KKleisli(f, g))>> :
       fa \in First, f \in {"kPos", "kLeaf2"}, g \in {"kPos", "kLeaf3", "kRight"}}

Programs ==
    {<<p>> : p \in Single} \cup LocalAsks \cup LeftIdentity \cup RightIdentity \cup Associativity

LeafIds == {"L1", "L2", "L3", "T1"}
NoEff == [op |-> "none"]
NoRt == [p |-> "none"]

\* ------------------------------------------------------------ the machine
FoldIdle ==
    /\ fS = "none" /\ fstart = 0 /\ fas = <<>> /\ fi = 0 /\ facc = 0 /\ fpc = "idle"

Init ==
    /\ progs \in Programs
    /\ idx = 1
    /\ pc = "init"
    /\ env \in Env
    /\ eff = NoEff
    /\ rt = NoRt
    /\ out = [i \in LeafIds |-> [set |-> FALSE, res |-> Right(0)]]
    /\ log = <<>>
    /\ results = <<>>
    /\ FoldIdle

\* the caller evaluates its expression: the combinators are called
Build ==
    /\ pc = "init"
    /\ LET c == Construct(progs[idx])
       IN  /\ eff' = c.v
           /\ log' = log \o c.ev
    /\ pc' = "built"
    /\ UNCHANGED <<progs, idx, env, rt, out, results>>
    /\ UNCHANGED foldVars

\* run(eff, env)
Run ==
    /\ pc = "built"
    /\ LET s == run(eff, env)
       IN  /\ rt' = s.v
           /\ log' = log \o <<Ev("run", "", env)>> \o s.ev
    /\ pc' = "running"
    /\ UNCHANGED <<progs, idx, env, eff, out, results>>
    /\ UNCHANGED foldVars

\* a leaf's deferred computation settles
Settle ==
    /\ pc = "running"
    /\ \E s \in SettleSteps(rt) :
         /\ rt' = s.v
         /\ log' = log \o s.ev
         /\ out' = [out EXCEPT ![s.id] = [set |-> TRUE, res |-> s.res]]
    /\ UNCHANGED <<progs, idx, pc, env, eff, results>>
    /\ UNCHANGED foldVars

\* a then-callback runs
Resume ==
    /\ pc = "running"
    /\ \E s \in ResumeSteps(rt) :
         /\ rt' = s.v
         /\ log' = log \o s.ev
    /\ UNCHANGED <<progs, idx, pc, env, eff, out, results>>
    /\ UNCHANGED foldVars

\* the promise run returned has settled
Finish ==
    /\ pc = "running"
    /\ rt.p = "done"
    /\ results' = Append(results, rt.res)
    /\ log' = Append(log, Ev("done", "", NoArg))
    /\ IF idx < Len(progs)
       THEN /\ idx' = idx + 1
            /\ pc' = "init"
            /\ eff' = NoEff
            /\ rt' = NoRt
       ELSE /\ pc' = "done"
            /\ UNCHANGED <<idx, eff, rt>>
    /\ UNCHANGED <<progs, env, out>>
    /\ UNCHANGED foldVars

Next == Build \/ Run \/ Settle \/ Resume \/ Finish

Spec == Init /\ [][Next]_vars

\* ---------------------------------------------------------- Semigroup.ts
\* A semigroup is named; getDualSemigroup flips the flag dual.
semigroupSum_concat(second, first) == first + second
semigroupProduct_concat(second, first) == first * second
semigroupString_concat(second, first) == first \o second
semigroupAll_concat(second, first) == first /\ second
semigroupAny_concat(second, first) == first \/ second
getFirstSemigroup_concat(second, first) == first
getLastSemigroup_concat(second, first) == second

getDualSemigroup(S) == [name |-> S.name, dual |-> ~S.dual]

Instance_concat(name, second, first) ==
    CASE name = "sum"     -> semigroupSum_concat(second, first)
      [] name = "product" -> semigroupProduct_concat(second, first)
      [] name = "string"  -> semigroupString_concat(second, first)
      [] name = "all"     -> semigroupAll_concat(second, first)
      [] name = "any"     -> semigroupAny_concat(second, first)
      [] name = "first"   -> getFirstSemigroup_concat(second, first)
      [] name = "last"    -> getLastSemigroup_concat(second, first)

\* S.concat(second)(first); the dual is  S.concat(first)(second)
concat(S, second, first) ==
    IF S.dual THEN Instance_concat(S.name, first, second)
    ELSE Instance_concat(S.name, second, first)

\* a variant with the operands swapped
fold_callback_swapped(S, a, acc) == concat(S, a, acc)

\* the callback of reduce:  (a, acc) => S.concat(acc)(a);  reduce passes the
\* accumulated total as a and the current element as acc
fold_callback(S, a, acc) == concat(S, acc, a)

Strings == {<<>>} \cup {<<a>> : a \in Val}
Elements(S) ==
    CASE S.name \in {"sum", "product", "first", "last"} -> Val
      [] S.name = "string" -> Strings
      [] S.name \in {"all", "any"} -> BOOLEAN
Semigroups ==
    LET Plain == {[name |-> n, dual |-> FALSE] :
                    n \in {"sum", "product", "string", "all", "any", "first", "last"}}
    IN  Plain \cup {getDualSemigroup(S) : S \in Plain}
Arrays(E) == UNION {[1..n -> E] : n \in 0..MaxLen}

FoldInit ==
    /\ fS \in Semigroups
    /\ fstart \in Elements(fS)
    /\ fas \in Arrays(Elements(fS))
    /\ fi = 0
    /\ facc = 0
    /\ fpc = "call"
    /\ progs = <<>> /\ idx = 0 /\ pc = "idle" /\ env = 0 /\ eff = NoEff /\ rt = NoRt
    /\ out = [i \in LeafIds |-> [set |-> FALSE, res |-> Right(0)]]
    /\ log = <<>> /\ results = <<>>

\* fold(S)(startWith)(as): reduce starts from startWith
fold ==
    /\ fpc = "call"
    /\ facc' = fstart
    /\ fi' = 0
    /\ fpc' = "reduce"
    /\ UNCHANGED <<fS, fstart, fas>>
    /\ UNCHANGED rteVars

\* reduce calls the callback on the next element
fold_reduce ==
    /\ fpc = "reduce"
    /\ fi < Len(fas)
    /\ facc' = fold_callback(fS, facc, fas[fi + 1])
    /\ fi' = fi + 1
    /\ UNCHANGED <<fS, fstart, fas, fpc>>
    /\ UNCHANGED rteVars

\* reduce returns the total
fold_return ==
    /\ fpc = "reduce"
    /\ fi = Len(fas)
    /\ fpc' = "done"
    /\ UNCHANGED <<fS, fstart, fas, fi, facc>>
    /\ UNCHANGED rteVars

FoldNext == fold \/ fold_reduce \/ fold_return

FoldSpec == FoldInit /\ [][FoldNext]_vars

\* ------------------------------------------------- vocabulary of the claims
\* what an operand settles to: a leaf's outcome once it has settled, a
\* constant's value at once
Outcome(p) ==
    CASE p.c = "leaf"  -> out[p.id]
      [] p.c = "right" -> [set |-> TRUE, res |-> Right(p.a)]
      [] p.c = "left"  -> [set |-> TRUE, res |-> Left(p.e)]
      [] p.c = "fromOption" ->
           [set |-> TRUE,
            res |-> IF p.ma.tag = "None" THEN Left(UserNone(p.onNone)) ELSE Right(p.ma.v)]

At(e, id) == {i \in DOMAIN log : log[i].e = e /\ log[i].id = id}
Touched(id) == \E i \in DOMAIN log : log[i].id = id
\* every leaf was invoked with, and started under, the environment given to run
SameEnv == \A i \in DOMAIN log : log[i].e \in {"invoke", "start"} => log[i].arg = env
\* the operand, when it is a leaf, settled before position i of the log
SettledBefore(p, i) == p.c = "leaf" => \E j \in At("settle", p.id) : j < i
OneProgram(c) == Len(progs) = 1 /\ progs[1].c = c

\* C1: chain(fa, f) run with r invokes f only after fa(r) settled, only on
\* Success(a) and with a, and runs f(a) against the same r; on Failure(e) f is
\* never invoked, nothing f would produce is started, and the whole settles to
\* Failure(e).
C1_ChainShortCircuit ==
    OneProgram("chain") =>
      LET fa == progs[1].ma
          f == progs[1].f.id
          o == Outcome(fa)
      IN  /\ \A i \in At("call", f) :
                /\ o.set /\ ~isLeft(o.res) /\ log[i].arg = o.res.v
                /\ SettledBefore(fa, i)
          /\ Cardinality(At("call", f)) <= 1
          /\ SameEnv
          /\ (o.set /\ isLeft(o.res)) =>
                /\ At("call", f) = {}
                /\ ~Touched("L2")
                /\ (pc = "done" => results = <<o.res>>)
          /\ (o.set /\ ~isLeft(o.res) /\ pc = "done") =>
                /\ Cardinality(At("call", f)) = 1
                /\ results = <<Outcome(UserK(f, o.res.v)).res>>

C1_Witness ==
    /\ progs = <<P_chain(Leaf("L1"), KUser("kLeaf2"))>>
    /\ pc = "done"
    /\ out["L1"].set /\ isLeft(out["L1"].res)
    /\ results = <<out["L1"].res>>

\* C2: sequential ap run with r neither invokes the value branch ma nor starts
\* any of its work until the function branch settled to Success; when the
\* function branch settles to Failure(e) the value branch never executes and
\* the result is Failure(e).
C2_SeqApOrder ==
    OneProgram("apSeq") =>
      LET mab == progs[1].mab
          ma == progs[1].ma
          o == Outcome(mab)
      IN  /\ \A i \in DOMAIN log :
                (ma.c = "leaf" /\ log[i].id = ma.id) =>
                   /\ o.set /\ ~isLeft(o.res)
                   /\ SettledBefore(mab, i)
          /\ SameEnv
          /\ (o.set /\ isLeft(o.res)) =>
                /\ ~Touched("L2")
                /\ (pc = "done" => results = <<o.res>>)

C2_Witness ==
    /\ progs = <<P_apSeq(Leaf("L1"), Leaf("L2"))>>
    /\ pc = "done"
    /\ isLeft(out["L1"].res)
    /\ ~Touched("L2")
    /\ results = <<out["L1"].res>>

\* C3: parallel ap settles to the function branch's Failure when that branch
\* fails (also when the value branch fails too), otherwise to the value
\* branch's Failure when it fails, otherwise to Success(f(a)), in whatever order
\* the branches settle.
C3_ParApRule ==
    (OneProgram("ap") /\ pc = "done") =>
      LET f == Outcome(progs[1].mab).res
          a == Outcome(progs[1].ma).res
      IN  results = << IF isLeft(f) THEN f
                       ELSE IF isLeft(a) THEN a
                       ELSE Right(ValFn(f.v, a.v)) >>

\* both fail with different errors, and the value branch settles first
C3_Witness ==
    /\ progs = <<P_ap(Leaf("L1"), Leaf("L2"))>>
    /\ pc = "done"
    /\ isLeft(out["L1"].res) /\ isLeft(out["L2"].res)
    /\ out["L1"].res # out["L2"].res
    /\ \E i \in At("settle", "L2") : \E j \in At("settle", "L1") : i < j
    /\ results = <<out["L1"].res>>

\* C4: parallel ap run with r invokes both branches with r and starts both
\* deferred computations whatever the other's outcome, and settles only after
\* both have settled.
C4_ParApBoth ==
    (OneProgram("ap") /\ pc \in {"running", "done"}) =>
      LET Leaves == {q \in {progs[1].mab, progs[1].ma} : q.c = "leaf"}
      IN  /\ \A q \in Leaves :
                /\ \E i \in At("invoke", q.id) : log[i].arg = env
                /\ \E i \in At("start", q.id) : log[i].arg = env
                /\ rt.p = "done" => At("settle", q.id) # {}
          /\ SameEnv

C4_Witness ==
    /\ progs = <<P_ap(Leaf("L1"), Leaf("L2"))>>
    /\ pc = "done"
    /\ isLeft(out["L1"].res)
    /\ \E i \in At("settle", "L1") : \E j \in At("settle", "L2") : i < j
    /\ At("start", "L2") # {}

\* C5: alt(fx, fy) run with r invokes the thunk fy only after fx(r) settled to
\* Failure, runs fy() against the same r and adopts its result; when fx settles
\* to Success(a), fy is never invoked and the result is Success(a).
C5_AltLazy ==
    OneProgram("alt") =>
      LET fx == progs[1].ma
          fy == progs[1].fy
          o == Outcome(fx)
      IN  /\ \A i \in At("call", fy) :
                /\ o.set /\ isLeft(o.res)
                /\ SettledBefore(fx, i)
          /\ SameEnv
          /\ (o.set /\ ~isLeft(o.res)) =>
                /\ At("call", fy) = {}
                /\ ~Touched("L2")
                /\ (pc = "done" => results = <<o.res>>)
          /\ (o.set /\ isLeft(o.res) /\ pc = "done") =>
                /\ Cardinality(At("call", fy)) = 1
                /\ results = <<Outcome(UserThunk(fy)).res>>

C5_Witness ==
    /\ progs = <<P_alt(Leaf("L1"), "tLeaf2")>>
    /\ pc = "done"
    /\ ~isLeft(out["L1"].res)
    /\ At("call", "tLeaf2") = {}
    /\ results = <<out["L1"].res>>

\* C7: orElse(f)(ma) run with r settles as ma does when ma settles to Success,
\* without invoking f; when ma settles to Failure(e), f is invoked exactly once,
\* with e, after ma settled, and f(e) is run against the same r and gives the
\* result of the whole.
C7_OrElse ==
    OneProgram("orElse") =>
      LET ma == progs[1].ma
          f == progs[1].f.id
          o == Outcome(ma)
      IN  /\ \A i \in At("call", f) :
                /\ o.set /\ isLeft(o.res) /\ log[i].arg = o.res.v
                /\ SettledBefore(ma, i)
          /\ Cardinality(At("call", f)) <= 1
          /\ SameEnv
          /\ (o.set /\ ~isLeft(o.res)) =>
                /\ At("call", f) = {}
                /\ ~Touched("L2")
                /\ (pc = "done" => results = <<o.res>>)
          /\ (o.set /\ isLeft(o.res) /\ pc = "done") =>
                /\ Cardinality(At("call", f)) = 1
                /\ results = <<Outcome(UserK(f, o.res.v)).res>>

C7_Witness ==
    /\ progs = <<P_orElse(KUser("hLeaf2"), Leaf("L1"))>>
    /\ pc = "done"
    /\ isLeft(out["L1"].res)
    /\ \E i \in At("invoke", "L2") : log[i].arg = env
    /\ results = <<out["L2"].res>>

\* the user functions a recipe hands to fromOption and fromPredicate
RECURSIVE EagerArgs(_)
EagerArgs(p) ==
    CASE p.c = "fromOption"    -> {p.onNone}
      [] p.c = "fromPredicate" -> {p.predicate, p.onFalse.id}
      [] p.c \in {"local", "map", "chain", "orElse", "alt", "fold"} -> EagerArgs(p.ma)
      [] p.c \in {"ap", "apSeq"} -> EagerArgs(p.mab) \cup EagerArgs(p.ma)
      [] OTHER -> {}

\* C6 as stated: no call of a constructor or combinator invokes a user-supplied
\* function or a leaf; nothing is invoked before run.
C6_NoWorkBeforeRun ==
    (idx = 1 /\ pc \in {"init", "built"}) => log = <<>>

\* C6: before run, the only user functions invoked are those handed to
\* fromOption (onNone, when the option is None) and to fromPredicate (the
\* predicate, and onFalse when it is false), which are called when the Effect
\* is constructed; no other constructor or combinator invokes anything, and no
\* leaf is invoked, started or run before run.
C6_NoWorkExceptEagerArgs ==
    (idx = 1 /\ pc \in {"init", "built"}) =>
      /\ \A i \in DOMAIN log : log[i].e = "call" /\ log[i].id \in EagerArgs(progs[1])
      /\ (pc = "built" /\ progs[1].c = "fromOption") =>
            log = IF progs[1].ma.tag = "None"
                  THEN <<Ev("call", progs[1].onNone, NoArg)>>
                  ELSE <<>>
      /\ (pc = "built" /\ progs[1].c = "fromPredicate") =>
            log = IF progs[1].a > 0
                  THEN <<Ev("call", "isPos", progs[1].a)>>
                  ELSE <<Ev("call", "isPos", progs[1].a), Ev("call", "inc", progs[1].a)>>

C6_Witness ==
    /\ progs = <<P_chain(P_fromOption("n1", None), KUser("kLeaf2"))>>
    /\ pc = "built"
    /\ log = <<Ev("call", "n1", NoArg)>>

\* C8: run(local(f)(asks(g)), q) and run(asks(a => g(f(a))), q) settle to the
\* same Result, Success(g(f(q))); local runs the wrapped Effect under f(q).
C8_LocalAsks ==
    /\ (Len(progs) = 2 /\ progs[1].c = "local" /\ pc = "done") =>
          /\ results[1] = results[2]
          /\ results[1] = Right(UserFn(progs[1].ma.f.id, UserFn(progs[1].f.id, env)))
    /\ OneProgram("local") =>
          \A i \in DOMAIN log :
             log[i].e \in {"invoke", "start"} => log[i].arg = UserFn(progs[1].f.id, env)

C8_Witness ==
    /\ progs[1] = P_local(FnUser("einc"), P_asks(FnUser("inc")))
    /\ pc = "done"
    /\ results[1] = Right(UserFn("inc", UserFn("einc", env)))
    /\ results[1] # Right(UserFn("inc", env))
    /\ results[2] = results[1]

\* C9: with right as unit, chain(right(a), f) and f(a), chain(fa, right) and
\* fa, chain(chain(fa, f), g) and chain(fa, a => chain(f(a), g)) settle to the
\* same Result under the same environment.
C9_MonadLaws ==
    (Len(progs) = 2 /\ progs[1].c = "chain" /\ pc = "done") => results[1] = results[2]

C9_Witness ==
    /\ progs = <<P_chain(P_chain(Leaf("L1"), KUser("kLeaf2")), KUser("kLeaf3")),
                 P_chain(Leaf("L1"), KKleisli("kLeaf2", "kLeaf3"))>>
    /\ pc = "done"
    /\ ~isLeft(out["L1"].res) /\ ~isLeft(out["L2"].res)
    /\ results = <<out["L3"].res, out["L3"].res>>

\* x <> y is S.concat(y)(x); ((s <> a1) <> a2) ... <> an, from the last element
RECURSIVE LeftCombination(_, _, _)
LeftCombination(S, s, as) ==
    IF Len(as) = 0 THEN s
    ELSE concat(S, as[Len(as)], LeftCombination(S, s, SubSeq(as, 1, Len(as) - 1)))

RECURSIVE Flatten(_)
Flatten(as) == IF Len(as) = 0 THEN <<>> ELSE as[1] \o Flatten(Tail(as))

RECURSIVE Total(_)
Total(as) == IF Len(as) = 0 THEN 0 ELSE as[1] + Total(Tail(as))

\* C10: fold(S)(s)(as) returns s when as is empty and otherwise
\* ((s <> a1) <> a2) ... <> an with x <> y = S.concat(y)(x): the elements are
\* combined in sequence order, the accumulated total as first operand.
C10_FoldLeftToRight ==
    /\ fpc = "reduce" => facc = LeftCombination(fS, fstart, SubSeq(fas, 1, fi))
    /\ fpc = "done" =>
          /\ facc = LeftCombination(fS, fstart, fas)
          /\ Len(fas) = 0 => facc = fstart
          /\ fS = [name |-> "string", dual |-> FALSE] => facc = fstart \o Flatten(fas)
          /\ fS = [name |-> "sum", dual |-> FALSE] => facc = fstart + Total(fas)
          /\ fS = [name |-> "first", dual |-> FALSE] => facc = fstart
          /\ (fS = [name |-> "last", dual |-> FALSE] /\ Len(fas) > 0) => facc = fas[Len(fas)]

C10_Witness ==
    /\ fpc = "done"
    /\ fS = [name |-> "string", dual |-> FALSE]
    /\ fstart = <<0>>
    /\ fas = <<(<<1>>), (<<0>>)>>
    /\ facc = <<0, 1, 0>>

====
